---- MODULE Spec2Model ----
(***************************************************************************)
(* Model of the ERC-4337 security test harness:                            *)
(*   batch_test/batch_runner.py   BatchRunner (encoder + batch executor)   *)
(*   batch_test/ai_generator.py   AttackVector, MockGenerator              *)
(*   V2/tests/test_signature_security-fixed.py   pack_uint128_pair         *)
(*                                                                         *)
(* Python values are represented as follows.  An Optional value is a       *)
(* sequence: <<>> is None and <<x>> is the value x.  A bytes object is a   *)
(* sequence of 0..255.  A float factor is an exact fraction <<num, den>>.  *)
(* An exception is a record [class, message].                              *)
(***************************************************************************)
EXTENDS Integers, Sequences, FiniteSets, TLC

VARIABLES
    attacks,      \* execute_batch: the input list of AttackVector
    results,      \* execute_batch: the list of result dicts built so far
    idx,          \* execute_batch: position of the for loop (1-based)
    pc,           \* position inside execute_batch / _execute_single_attack
    op,           \* _execute_single_attack: the tuple returned by _construct_user_op
    tx_hash,      \* _execute_single_attack: hash returned by transact, or None
    chainNonce,   \* entry point: nonces(account), the account's on-chain nonce
    mined,        \* chain: receipt status of every transaction sent, None if pending
    stub,         \* which entry point the runner talks to
    current_nonce,\* _construct_user_op: the value read from nonces(account)
    log,          \* per executed vector: what the node answered and what was built
    polls,        \* wait_for_transaction_receipt: polls made for the current hash
    setup,        \* BatchRunner.__init__: what the constructor met, None before
    exit_code,    \* run_batch.py: exit status of the process, None while it runs
    reported,     \* run_batch.py: the results handed to Visualizer, None if none
    interrupted,  \* run_batch.py: the run was stopped by KeyboardInterrupt
    calls,        \* every handleOps(...).transact(...) call the runner has made
    arg_a, arg_b, packed, \* pack_uint128_pair: arguments a, b and returned value
    count, batch, genPc, \* MockGenerator.generate_batch: argument, list, loop
    firstBatch, run,     \* a previous generate_batch run of the same process setup
    user_attack_type,    \* generate_attack_userop: the argument attack_type
    response_text,       \* generate_attack_userop: the text the API call returned
    returned,            \* generate_attack_userop: the returned dict
    aiPc,                \* generate_attack_userop: where the call is
    test,                \* SignatureSecurityTest: the test method that runs
    testPc,              \* SignatureSecurityTest: where the test method is
    onchain_nonce,       \* entry point of the test: getNonce(account, 0)
    initial_nonce,       \* the nonce read at the start of the test method
    final_nonce,         \* test_replay_attack: the nonce read after the first attempt
    final_nonce_after_replay, \* test_replay_attack: the nonce read after the replay
    case,                \* test_short_signature: index of the test case
    details,             \* test_short_signature: the list `results`
    verdict,             \* the dict the test method returned
    attempts,            \* what happened to every handleOps transaction of the test
    looked_up            \* the on-chain nonce at the time of every nonce lookup

vars == <<attacks, results, idx, pc, op, tx_hash, chainNonce, mined, stub,
          current_nonce, log, polls, setup, exit_code, reported, interrupted,
          calls, arg_a, arg_b, packed, count, batch, genPc, firstBatch, run,
          user_attack_type, response_text, returned, aiPc,
          test, testPc, onchain_nonce, initial_nonce, final_nonce,
          final_nonce_after_replay, case, details, verdict, attempts, looked_up>>

runnerVars == <<attacks, results, idx, pc, op, tx_hash, chainNonce, mined, stub,
                current_nonce, log, polls, setup, exit_code, reported, interrupted,
                calls>>
packVars == <<arg_a, arg_b, packed>>
genVars == <<count, batch, genPc, firstBatch, run>>
aiVars == <<user_attack_type, response_text, returned, aiPc>>
testVars == <<test, testPc, onchain_nonce, initial_nonce, final_nonce,
              final_nonce_after_replay, case, details, verdict, attempts, looked_up>>

----------------------------------------------------------------------------
(* Bounds of the model *)

MaxBatch == 2        \* longest list handed to execute_batch
MaxPolls == 2        \* polls wait_for_transaction_receipt makes before its timeout
LiveBatch == 1       \* longest list handed to execute_batch under fairness
MaxText == 4         \* longest response text of the AI service, in tokens
E2ECount == 10       \* vectors generated and executed in one end-to-end run
MaxCount == 3        \* largest count handed to generate_batch
RepeatCount == 1     \* largest count when generate_batch is run twice

----------------------------------------------------------------------------
(* Python values *)

None == <<>>
Some(x) == <<x>>

Bytes(byte, n) == [k \in 1..n |-> byte]      \* bytes([byte]) * n

\* int(x) of the float x = num/den: truncation toward zero
IntTrunc(num, den) ==
    IF num >= 0 THEN num \div den ELSE -((-num) \div den)

\* float multiplication k * factor, as an exact fraction
FloatMul(k, factor) == <<k * factor[1], factor[2]>>

----------------------------------------------------------------------------
(* batch_test/ai_generator.py: AttackVector *)

\* the dataclass; the last four fields default to None, 0, 1.0, 1.0
AttackVector(name, description, attack_type, signature, nonce_offset, cgf, vgf) ==
    [name |-> name, description |-> description, attack_type |-> attack_type,
     signature |-> signature, nonce_offset |-> nonce_offset,
     call_gas_limit_factor |-> cgf, verification_gas_limit_factor |-> vgf]

DefaultFactor == <<1, 1>>     \* 1.0

----------------------------------------------------------------------------
(* batch_test/ai_generator.py: MockGenerator *)

\* random.choices([...], weights=[0.6, 0.2, 0.2]): every type has weight > 0
AttackTypes == {"signature_forgery", "replay", "gas_exhaustion"}
\* random.choice(['zero', 'short', 'empty', 'invalid_v'])
Subtypes == {"zero", "short", "empty", "invalid_v"}
\* random.randint(1, 64): the lengths the model draws
ShortLengths == {1, 2, 64}
\* random.choice([0, 1, 26, 29, 255])
InvalidVWith27 == {0, 1, 27, 29, 255}
InvalidV == {0, 1, 26, 29, 255}
\* random.choice([0.1, 0.5, 2.0, 10.0])
GasFactors == {<<1, 10>>, <<1, 2>>, <<2, 1>>, <<10, 1>>}

\* the f-string rendering of a float factor in a description
FactorStr(f) ==
    IF f = <<1, 10>> THEN "0.1"
    ELSE IF f = <<1, 2>> THEN "0.5"
    ELSE IF f = <<2, 1>> THEN "2.0"
    ELSE IF f = <<10, 1>> THEN "10.0"
    ELSE ToString(f[1]) \o "/" \o ToString(f[2])

\* the name built by _generate_signature_attack
SigAttackName(index, subtype) ==
    "SigAttack_" \o ToString(index) \o "_" \o subtype

\* _generate_signature_attack(index), for the draws subtype, length and v
_generate_signature_attack(index, subtype, length, v) ==
    LET sig == IF subtype = "zero" THEN Bytes(0, 65)
               ELSE IF subtype = "short" THEN Bytes(1, length)
               ELSE IF subtype = "empty" THEN <<>>
               ELSE Bytes(1, 64) \o <<v>>
        desc == IF subtype = "zero"
                  THEN "All-zero signature (65 bytes) - Testing ecrecover(0) vulnerability"
                ELSE IF subtype = "short"
                  THEN "Short signature (" \o ToString(length)
                       \o " bytes) - Testing length validation"
                ELSE IF subtype = "empty"
                  THEN "Empty signature (0 bytes) - Testing missing check"
                ELSE "Signature with invalid v value - Testing ECDSA recovery logic"
    IN AttackVector(SigAttackName(index, subtype), desc, "signature_forgery",
                    Some(sig), 0, DefaultFactor, DefaultFactor)

\* the name built by _generate_replay_attack
ReplayAttackNameNoIndex(index) == "ReplayAttack"
ReplayAttackName(index) == "ReplayAttack_" \o ToString(index)

_generate_replay_attack(index) ==
    AttackVector(ReplayAttackName(index),
                 "Attempting to use an already used nonce (current - 1)",
                 "replay", None, -1, DefaultFactor, DefaultFactor)

_generate_gas_attack(index, factor) ==
    AttackVector("GasAttack_" \o ToString(index),
                 "Modified gas limits by factor " \o FactorStr(factor),
                 "gas_exhaustion", None, 0, factor, factor)

\* generate_batch, lines 83-88: the vectors the branch for attack_type can
\* append at index i, one for every outcome of the random draws
Draws(attack_type, i) ==
    IF attack_type = "signature_forgery"
      THEN UNION { { _generate_signature_attack(i, subtype, length, v) :
                       length \in (IF subtype = "short" THEN ShortLengths ELSE {0}),
                       v \in (IF subtype = "invalid_v" THEN InvalidV ELSE {0}) } :
                   subtype \in Subtypes }
    ELSE IF attack_type = "replay"
      THEN { _generate_replay_attack(i) }
    ELSE { _generate_gas_attack(i, factor) : factor \in GasFactors }

\* generate_batch(count): attacks = [], the loop starts
GenerateBatch(c) ==
    /\ genPc = "idle"
    /\ count' = c
    /\ batch' = <<>>
    /\ genPc' = "loop"
    /\ UNCHANGED <<firstBatch, run>>

\* one iteration of `for i in range(count)`: draw the type, append one vector
GenerateNext ==
    /\ genPc = "loop"
    /\ Len(batch) < count
    /\ \E attack_type \in AttackTypes :
         \E v \in Draws(attack_type, Len(batch)) : batch' = Append(batch, v)
    /\ UNCHANGED <<count, genPc, firstBatch, run>>

\* range(count) is exhausted (at once when count <= 0): return attacks
GenerateReturn ==
    /\ genPc = "loop"
    /\ Len(batch) >= count
    /\ genPc' = "returned"
    /\ UNCHANGED <<count, batch, firstBatch, run>>

\* a second run: MockGenerator() is constructed without arguments and
\* generate_batch is called with the same count
RunAgain ==
    /\ genPc = "returned"
    /\ run = 1
    /\ firstBatch' = batch
    /\ run' = 2
    /\ batch' = <<>>
    /\ genPc' = "loop"
    /\ UNCHANGED count

----------------------------------------------------------------------------
(* Python integers.  An int is a sign and a magnitude; the magnitude is a   *)
(* big-endian sequence of bytes without leading zeros.  The bitwise         *)
(* operators act on the two's complement form, as Python defines them.      *)

PyInt(neg, mag) == [neg |-> neg, mag |-> mag]

RECURSIVE Strip(_)
Strip(s) == IF s # <<>> /\ s[1] = 0 THEN Strip(Tail(s)) ELSE s

Front(s) == SubSeq(s, 1, Len(s) - 1)

\* the n low-order bytes of the magnitude s, zero-extended on the left
LowBytes(s, n) ==
    IF Len(s) >= n THEN SubSeq(s, Len(s) - n + 1, Len(s))
    ELSE Bytes(0, n - Len(s)) \o s

RECURSIVE BitAnd(_, _)
BitAnd(x, y) ==
    IF x = 0 \/ y = 0 THEN 0
    ELSE (IF x % 2 = 1 /\ y % 2 = 1 THEN 1 ELSE 0) + 2 * BitAnd(x \div 2, y \div 2)

RECURSIVE BitOr(_, _)
BitOr(x, y) ==
    IF x = 0 /\ y = 0 THEN 0
    ELSE (IF x % 2 = 1 \/ y % 2 = 1 THEN 1 ELSE 0) + 2 * BitOr(x \div 2, y \div 2)

\* s + 1 modulo 256^Len(s)
RECURSIVE AddOne(_)
AddOne(s) ==
    IF s = <<>> THEN <<>>
    ELSE IF s[Len(s)] < 255 THEN Front(s) \o <<s[Len(s)] + 1>>
    ELSE AddOne(Front(s)) \o <<0>>

Invert(s) == [k \in 1..Len(s) |-> 255 - s[k]]

\* the n low-order bytes of the two's complement form of x
TwosComplement(x, n) ==
    IF x.neg THEN AddOne(Invert(LowBytes(x.mag, n))) ELSE LowBytes(x.mag, n)

\* the int whose n-byte two's complement form is s with sign bit `neg`
FromTwosComplement(s, neg) ==
    IF neg THEN PyInt(TRUE, Strip(AddOne(Invert(s)))) ELSE PyInt(FALSE, Strip(s))

Max(x, y) == IF x >= y THEN x ELSE y

\* x & y
And(x, y) ==
    LET n == Max(Len(x.mag), Len(y.mag)) + 1
        tx == TwosComplement(x, n)
        ty == TwosComplement(y, n)
    IN FromTwosComplement([k \in 1..n |-> BitAnd(tx[k], ty[k])], x.neg /\ y.neg)

\* x | y
Or(x, y) ==
    LET n == Max(Len(x.mag), Len(y.mag)) + 1
        tx == TwosComplement(x, n)
        ty == TwosComplement(y, n)
    IN FromTwosComplement([k \in 1..n |-> BitOr(tx[k], ty[k])], x.neg \/ y.neg)

\* x << 128: sixteen whole bytes
ShiftLeft128(x) ==
    PyInt(x.neg, IF x.mag = <<>> THEN <<>> ELSE x.mag \o Bytes(0, 16))

\* (1 << 128) - 1
Mask128 == PyInt(FALSE, Bytes(255, 16))

\* x.to_bytes(length, 'big'): OverflowError for a negative int and for an
\* int that does not fit
ToBytes(x, length) ==
    IF x.neg \/ Len(x.mag) > length
      THEN [raised |-> TRUE, exception |-> "OverflowError", value |-> <<>>]
      ELSE [raised |-> FALSE, exception |-> "", value |-> LowBytes(x.mag, length)]

----------------------------------------------------------------------------
(* V2/tests/test_signature_security-fixed.py: pack_uint128_pair *)

pack_swapped(x, y) ==
    LET a1 == And(x, Mask128)
        b1 == And(y, Mask128)
    IN ToBytes(Or(ShiftLeft128(a1), b1), 32)

pack_unmasked(x, y) ==
    ToBytes(Or(ShiftLeft128(y), x), 32)

pack_uint128_pair(x, y) ==
    LET a1 == And(x, Mask128)
        b1 == And(y, Mask128)
        packedInt == Or(ShiftLeft128(b1), a1)
    IN ToBytes(packedInt, 32)

\* the integers handed to pack_uint128_pair in the model
Zero == PyInt(FALSE, <<>>)
TwoPow128 == PyInt(FALSE, <<1>> \o Bytes(0, 16))
MaxUint128 == PyInt(FALSE, Bytes(255, 16))
PackInputs ==
    { Zero,
      PyInt(FALSE, <<1>>),
      PyInt(FALSE, <<1, 2, 3>>),
      PyInt(FALSE, <<1>> \o Bytes(0, 8)),
      PyInt(FALSE, <<128>> \o Bytes(0, 15)),
      MaxUint128,
      TwoPow128,
      PyInt(FALSE, <<1>> \o Bytes(0, 15) \o <<7>>),
      PyInt(FALSE, <<1>> \o Bytes(0, 31) \o <<5>>),
      PyInt(TRUE, <<1>>),
      PyInt(TRUE, <<1>> \o Bytes(0, 16)),
      PyInt(TRUE, <<1>> \o Bytes(0, 15) \o <<1>>),
      PyInt(TRUE, <<2, 0>>) }

\* a call pack_uint128_pair(x, y) and its return (or its exception)
Pack(x, y) ==
    /\ arg_a' = x
    /\ arg_b' = y
    /\ packed' = Some(pack_uint128_pair(x, y))

----------------------------------------------------------------------------
(* web3 / eth_account as batch_runner.py uses them *)

\* Account.from_key(key).address for the three Hardhat keys of _init_accounts
from_key(key) ==
    IF key = "0xac0974bec39a17e36ba4a6b4d238ff944bacb478cbed5efcae784d7bf4f2ff80"
      THEN [address |-> "0xf39Fd6e51aad88F6F4ce6aB8827279cffFb92266"]
    ELSE IF key = "0x59c6995e998f97a5a0044966f0945389dc9e86dae88c7a8412f4603b6b78690d"
      THEN [address |-> "0x70997970C51812dc3A010C7d01b50e0d17dc79C8"]
    ELSE [address |-> "0x3C44CdDdB6a900fa2b585dd299e03d12FA4293BC"]

deployer == from_key("0xac0974bec39a17e36ba4a6b4d238ff944bacb478cbed5efcae784d7bf4f2ff80")
attacker == from_key("0x59c6995e998f97a5a0044966f0945389dc9e86dae88c7a8412f4603b6b78690d")
user == from_key("0x5de4111afa1a4b94908f83103eb1f1706367c2e68ca870fc3fb9a804cdab365a")

\* self.account.address, read from the deployments file
account == [address |-> "simpleAccount"]

\* self.w3.eth.gas_price
gas_price == 1000000000

Exc(class, message) == [class |-> class, message |-> message]

\* str(e)
Str(e) == e.message

\* web3.exceptions: ContractCustomError and ContractPanicError derive from
\* ContractLogicError
IsContractLogicError(e) ==
    e.class \in {"ContractLogicError", "ContractCustomError", "ContractPanicError"}

\* what a reverting handleOps makes transact raise
Rejections ==
    { Exc("ContractLogicError", "execution reverted: AA24 signature error"),
      Exc("ContractCustomError", "0x220266b6") }

\* what an unreachable node makes any request raise
TransportErrors == { Exc("ConnectionError", "Connection refused") }

\* what wait_for_transaction_receipt raises when its timeout expires
TimeExhausted ==
    Exc("TimeExhausted", "Transaction is not in the chain after 120 seconds")

\* what encoding a value outside its ABI type raises
ValidationError ==
    Exc("Web3ValidationError", "Could not identify the intended function")

\* a Python int encodes as uint256 only when it is in 0 .. 2^256 - 1 (the
\* integers of the model stay far below the upper end)
IsUint256(x) == x >= 0

\* the ABI encoder accepts the UserOperation tuple
Encodable(userOp) ==
    \A k \in {2, 5, 6, 7, 8, 9} : IsUint256(userOp[k])

\* tx_hash.hex()
Hex(h) == "0x" \o ToString(h)

----------------------------------------------------------------------------
(* batch_test/batch_runner.py: BatchRunner *)

\* self.account.functions.execute(attacker, 0, b'')._encode_transaction_data()
call_data == <<"execute", attacker.address, 0, <<>>>>

\* _construct_user_op, lines 115-119: the nonce and the gas limits
ClampedNonce(n, attack) ==
    Max(0, n + attack.nonce_offset)
OpNonce(n, attack) == n + attack.nonce_offset
CallGas(attack) ==
    LET x == FloatMul(200000, attack.call_gas_limit_factor)
    IN IntTrunc(x[1], x[2])
VerificationGas(attack) ==
    LET x == FloatMul(100000, attack.verification_gas_limit_factor)
    IN IntTrunc(x[1], x[2])

\* _construct_user_op, lines 133-138: the tuple handed to getUserOpHash
HashTuple(n, attack) ==
    <<account.address, OpNonce(n, attack), <<>>, call_data,
      CallGas(attack), VerificationGas(attack), 21000,
      gas_price, gas_price, <<>>, <<>>>>

\* _construct_user_op, lines 129-142: the signature of the operation
OpSignatureAlwaysEmpty(attack) == <<>>
OpSignature(attack) ==
    IF attack.signature # None THEN attack.signature[1] ELSE <<>>

\* _construct_user_op, lines 144-156: the returned tuple
UserOpGasSwapped(n, attack) ==
    <<account.address, OpNonce(n, attack), <<>>, call_data,
      VerificationGas(attack), CallGas(attack), 21000,
      gas_price, gas_price, <<>>, OpSignature(attack)>>
UserOp(n, attack) ==
    <<account.address, OpNonce(n, attack), <<>>, call_data,
      CallGas(attack), VerificationGas(attack), 21000,
      gas_price, gas_price, <<>>, OpSignature(attack)>>

\* the result dicts of _execute_single_attack
Result(attack, status, hash, error) ==
    [name |-> attack.name, type |-> attack.attack_type, status |-> status,
     description |-> attack.description, tx_hash |-> hash, error |-> error]

\* lines 71-88: the receipt decides
ReceiptStatusInverted(attack, hash, status) ==
    IF status = 0
      THEN Result(attack, "VULNERABLE", Some(Hex(hash)), None)
      ELSE Result(attack, "BLOCKED", Some(Hex(hash)),
                  Some("Transaction reverted (status 0)"))
ReceiptResult(attack, hash, status) ==
    IF status = 1
      THEN Result(attack, "VULNERABLE", Some(Hex(hash)), None)
      ELSE Result(attack, "BLOCKED", Some(Hex(hash)),
                  Some("Transaction reverted (status 0)"))

\* lines 90-108: the two except clauses
ExceptNoDetail(attack, e) ==
    IF IsContractLogicError(e)
      THEN Result(attack, "BLOCKED", None, None)
      ELSE Result(attack, "ERROR", None, None)
ExceptAllError(attack, e) == Result(attack, "ERROR", None, Some(Str(e)))
ExceptAllBlocked(attack, e) == Result(attack, "BLOCKED", None, Some(Str(e)))
ExceptFixedText(attack, e) ==
    IF IsContractLogicError(e)
      THEN Result(attack, "BLOCKED", None, Some("Transaction reverted"))
      ELSE Result(attack, "ERROR", None, Some(Str(e)))
ExceptResult(attack, e) ==
    IF IsContractLogicError(e)
      THEN Result(attack, "BLOCKED", None, Some(Str(e)))
      ELSE Result(attack, "ERROR", None, Some(Str(e)))

\* the entry points the runner is connected to: a real node (any verdict,
\* any transport failure), a stub that accepts every operation, a stub whose
\* handleOps always reverts
EntryPoints == {"node", "acceptAll", "alwaysRevert"}
\* the two forms of the reverting stub: a node that refuses the reverting
\* transaction when it is sent, a node that mines it with status 0
RevertingEntryPoints == {"revertOnSend", "revertMined"}

\* what a read-only call / gas_price request can raise
CallErrors(ep) == IF ep = "node" THEN TransportErrors ELSE {}
\* what handleOps(...).transact(...) can raise
TransactErrors(ep) ==
    IF ep = "node" THEN Rejections \cup TransportErrors
    ELSE IF ep = "alwaysRevert" THEN Rejections
    ELSE IF ep = "revertOnSend"
      THEN {Exc("ContractLogicError", "execution reverted: AA24 signature error")}
    ELSE {}
\* the receipt status of a mined handleOps transaction
MinedStatuses(ep) ==
    IF ep = "node" THEN {0, 1}
    ELSE IF ep \in {"alwaysRevert", "revertMined"} THEN {0}
    ELSE IF ep = "revertOnSend" THEN {}
    ELSE {1}
\* the node may keep a transaction unmined for a while, or for ever
MayStayPending(ep) == ep = "node"
\* EVM: a handleOps transaction that succeeds uses the operation's nonce, a
\* reverted one leaves the chain state as it was
NonceAfterHandleOps(n, status) == IF status = 1 THEN n + 1 ELSE n
\* what wait_for_transaction_receipt can raise
WaitErrors(ep) == IF ep = "node" THEN TransportErrors ELSE {}
\* wait_for_transaction_receipt gives up after its timeout (120 s by default)
NeverTimedOut(p) == FALSE
TimedOut(p) == p >= MaxPolls

\* the on-chain nonces a batch starts from
StartNonces == {0, 5}

\* the vectors handed to execute_batch in the model
TestVectors ==
    { _generate_signature_attack(0, "zero", 0, 0),
      _generate_replay_attack(1),
      _generate_gas_attack(2, <<2, 1>>),
      AttackVector("SignedReplay", "empty signature on the previous nonce",
                   "replay", Some(<<>>), -1, DefaultFactor, DefaultFactor),
      AttackVector("FutureNonce", "one-byte signature on the next nonce",
                   "signature_forgery", Some(<<1>>), 1, <<1, 2>>, <<1, 10>>),
      AttackVector("TinyGas", "gas limits below two units",
                   "gas_exhaustion", None, 0, <<9, 1000000>>, <<9, 1000000>>) }

RECURSIVE ListsUpTo(_, _)
ListsUpTo(S, n) ==
    IF n = 0 THEN {<<>>}
    ELSE LET shorter == ListsUpTo(S, n - 1)
         IN shorter \cup {Append(l, x) : l \in {m \in shorter : Len(m) = n - 1}, x \in S}

\* what the model records about one execution of _execute_single_attack
LogEntry(stage, nonceRead, exc, receipt) ==
    [stage |-> stage, current_nonce |-> nonceRead, exc |-> exc, receipt |-> receipt,
     nonce_after |-> chainNonce]

\* execute_batch, lines 47-48: results.append(result)
DropErrors(rs, r) == IF r.status = "ERROR" THEN rs ELSE Append(rs, r)
AppendResult(rs, r) == Append(rs, r)

\* _execute_single_attack returns r; execute_batch appends it and moves on
FinishRetriesOnce(r, entry) ==
    IF /\ r.status = "ERROR"
       /\ entry.stage = "transact"
       /\ \A k \in 1..Len(calls) : calls[k].vector # idx
      THEN /\ pc' = "submit"
           /\ tx_hash' = None
           /\ polls' = 0
           /\ UNCHANGED <<attacks, results, idx, op, current_nonce, log, stub, setup,
                          exit_code, reported, interrupted>>
      ELSE /\ results' = AppendResult(results, r)
           /\ log' = Append(log, entry)
           /\ idx' = idx + 1
           /\ pc' = IF idx + 1 > Len(attacks) THEN "returned" ELSE "construct"
           /\ op' = None
           /\ tx_hash' = None
           /\ current_nonce' = None
           /\ polls' = 0
           /\ UNCHANGED <<attacks, stub, setup, exit_code, reported, interrupted>>
Finish(r, entry) ==
    /\ results' = AppendResult(results, r)
    /\ log' = Append(log, entry)
    /\ idx' = idx + 1
    /\ pc' = IF idx + 1 > Len(attacks) THEN "returned" ELSE "construct"
    /\ op' = None
    /\ tx_hash' = None
    /\ current_nonce' = None
    /\ polls' = 0
    /\ UNCHANGED <<attacks, stub, setup, exit_code, reported, interrupted>>

\* execute_batch(attacks): results = [], the for loop starts
ExecuteBatch(list) ==
    /\ pc = "idle"
    /\ attacks' = list
    /\ results' = <<>>
    /\ idx' = 1
    /\ pc' = IF list = <<>> THEN "returned" ELSE "construct"
    /\ UNCHANGED <<op, tx_hash, chainNonce, mined, stub, current_nonce, log, polls,
                   setup, exit_code, reported, interrupted>>
    /\ UNCHANGED calls

\* _construct_user_op, line 112: nonces(account).call() answers with the
\* nonce the chain holds now
CachedNonce ==
    IF Len(log) > 0 /\ log[1].current_nonce # None
      THEN log[1].current_nonce[1] ELSE chainNonce
NonceRead == chainNonce

\* _execute_single_attack, line 58: op = self._construct_user_op(attack)
ConstructUserOp ==
    /\ pc = "construct"
    /\ LET attack == attacks[idx]
           n == NonceRead
       IN \/ \* nonces(), getUserOpHash() or gas_price cannot reach the node
             /\ \E e \in CallErrors(stub) :
                  Finish(ExceptResult(attack, e),
                         LogEntry("construct", None, Some(e), None))
             /\ UNCHANGED <<chainNonce, mined>>
          \/ \* getUserOpHash is called for a vector without signature and
             \* its argument does not encode
             /\ attack.signature = None
             /\ ~Encodable(HashTuple(n, attack))
             /\ Finish(ExceptResult(attack, ValidationError),
                       LogEntry("construct", Some(n), Some(ValidationError), None))
             /\ UNCHANGED <<chainNonce, mined>>
          \/ \* the tuple is returned
             /\ attack.signature # None \/ Encodable(HashTuple(n, attack))
             /\ current_nonce' = Some(n)
             /\ op' = Some(UserOp(n, attack))
             /\ pc' = "submit"
             /\ UNCHANGED <<attacks, results, idx, tx_hash, chainNonce, mined,
                            stub, log, polls, setup, exit_code, reported,
                            interrupted>>
    /\ UNCHANGED calls

\* lines 62-65: the call, its arguments and its transaction parameters
HandleOpsCallFromAttacker(userOp) ==
    [function |-> "handleOps", ops |-> <<userOp>>,
     beneficiary |-> attacker.address, from |-> attacker.address, gas |-> 5000000]
HandleOpsCall(userOp) ==
    [function |-> "handleOps", ops |-> <<userOp>>,
     beneficiary |-> attacker.address, from |-> deployer.address, gas |-> 5000000]

\* _execute_single_attack, lines 62-65: handleOps([op], attacker).transact(...)
Transact ==
    /\ pc = "submit"
    /\ calls' = Append(calls, [call |-> HandleOpsCall(op[1]), vector |-> idx,
                               results_before |-> Len(results)])
    /\ LET attack == attacks[idx]
       IN \/ \* the operation does not encode
             /\ ~Encodable(op[1])
             /\ Finish(ExceptResult(attack, ValidationError),
                       LogEntry("transact", current_nonce, Some(ValidationError), None))
             /\ UNCHANGED <<chainNonce, mined>>
          \/ \* the node rejects the call, or cannot be reached
             /\ Encodable(op[1])
             /\ \E e \in TransactErrors(stub) :
                  Finish(ExceptResult(attack, e),
                         LogEntry("transact", current_nonce, Some(e), None))
             /\ UNCHANGED <<chainNonce, mined>>
          \/ \* the transaction is mined at once
             /\ Encodable(op[1])
             /\ \E status \in MinedStatuses(stub) :
                  /\ mined' = Append(mined, Some(status))
                  /\ chainNonce' = NonceAfterHandleOps(chainNonce, status)
             /\ tx_hash' = Some(Len(mined) + 1)
             /\ pc' = "wait"
             /\ UNCHANGED <<attacks, results, idx, op, stub, current_nonce, log,
                            polls, setup, exit_code, reported, interrupted>>
          \/ \* the transaction is accepted by the node and not mined yet
             /\ Encodable(op[1])
             /\ MayStayPending(stub)
             /\ mined' = Append(mined, None)
             /\ tx_hash' = Some(Len(mined) + 1)
             /\ pc' = "wait"
             /\ UNCHANGED <<attacks, results, idx, op, stub, current_nonce, log,
                            polls, chainNonce, setup, exit_code, reported,
                            interrupted>>

\* _execute_single_attack, lines 68-88: the receipt is there, classify it
WaitReceipt ==
    /\ pc = "wait"
    /\ mined[tx_hash[1]] # None
    /\ Finish(ReceiptResult(attacks[idx], tx_hash[1], mined[tx_hash[1]][1]),
              LogEntry("wait", current_nonce, None, mined[tx_hash[1]]))
    /\ UNCHANGED <<chainNonce, mined>>
    /\ UNCHANGED calls

\* line 68: a poll finds no receipt and the timeout has not expired; the
\* counter of the model stops at MaxPolls
WaitPollMovesOn ==
    /\ pc = "wait"
    /\ mined[tx_hash[1]] = None
    /\ idx < Len(attacks)
    /\ idx' = idx + 1
    /\ pc' = "construct"
    /\ op' = None
    /\ tx_hash' = None
    /\ current_nonce' = None
    /\ UNCHANGED <<attacks, results, chainNonce, mined, stub, log, polls, setup,
                   exit_code, reported, interrupted, calls>>
WaitPoll ==
    /\ pc = "wait"
    /\ mined[tx_hash[1]] = None
    /\ ~TimedOut(polls)
    /\ polls' = IF polls < MaxPolls THEN polls + 1 ELSE polls
    /\ UNCHANGED <<attacks, results, idx, pc, op, tx_hash, chainNonce, mined, stub,
                   current_nonce, log, setup, exit_code, reported, interrupted>>
    /\ UNCHANGED calls

\* line 68: no receipt when the timeout expires, TimeExhausted is raised
WaitTimeout ==
    /\ pc = "wait"
    /\ mined[tx_hash[1]] = None
    /\ TimedOut(polls)
    /\ Finish(ExceptResult(attacks[idx], TimeExhausted),
              LogEntry("wait", current_nonce, Some(TimeExhausted), None))
    /\ UNCHANGED <<chainNonce, mined>>
    /\ UNCHANGED calls

\* line 68: the node cannot be reached while the runner waits
WaitRaises ==
    /\ pc = "wait"
    /\ \E e \in WaitErrors(stub) :
         Finish(ExceptResult(attacks[idx], e),
                LogEntry("wait", current_nonce, Some(e), None))
    /\ UNCHANGED <<chainNonce, mined>>
    /\ UNCHANGED calls

\* the chain mines the pending transaction while the runner waits for it
MinePending ==
    /\ pc = "wait"
    /\ mined[tx_hash[1]] = None
    /\ \E status \in MinedStatuses(stub) :
         /\ mined' = [mined EXCEPT ![tx_hash[1]] = Some(status)]
         /\ chainNonce' = NonceAfterHandleOps(chainNonce, status)
    /\ UNCHANGED <<attacks, results, idx, pc, op, tx_hash, stub, current_nonce,
                   log, polls, setup, exit_code, reported, interrupted>>
    /\ UNCHANGED calls

----------------------------------------------------------------------------
(* run_batch.py: main *)

\* what BatchRunner() can meet: __init__ line 12, _load_deployments line 20,
\* _init_contracts lines 27-32
SetupConditions == {"ok", "not_connected", "no_deployments_file", "missing_key"}

\* main, lines 52 and 66-70: an exception of the constructor ends the
\* process with sys.exit(1)
SetupIgnoresMissingKey(cond) ==
    IF cond \in {"ok", "missing_key"} THEN None ELSE Some(1)
SetupExit(cond) == IF cond = "ok" THEN None ELSE Some(1)

\* main, line 52: runner = BatchRunner()
Setup ==
    /\ pc = "start"
    /\ \E cond \in SetupConditions :
         /\ setup' = Some(cond)
         /\ exit_code' = SetupExit(cond)
         /\ pc' = IF SetupExit(cond) = None THEN "idle" ELSE "exit"
    /\ UNCHANGED <<attacks, results, idx, op, tx_hash, chainNonce, mined, stub,
                   current_nonce, log, polls, reported, interrupted>>
    /\ UNCHANGED calls

\* main, lines 57-64 and the return of main: the report is made from the
\* results and the process ends with status 0
MainFinish ==
    /\ pc = "returned"
    /\ reported' = Some(results)
    /\ exit_code' = Some(0)
    /\ pc' = "exit"
    /\ UNCHANGED <<attacks, results, idx, op, tx_hash, chainNonce, mined, stub,
                   current_nonce, log, polls, setup, interrupted>>
    /\ UNCHANGED calls

\* KeyboardInterrupt between two vectors (execute_batch, line 51): neither
\* `except Exception` of _execute_single_attack nor that of main catches it,
\* the interpreter ends with the status of SIGINT
Interrupt ==
    /\ pc = "construct"
    /\ interrupted' = TRUE
    /\ exit_code' = Some(130)
    /\ pc' = "exit"
    /\ UNCHANGED <<attacks, results, idx, op, tx_hash, chainNonce, mined, stub,
                   current_nonce, log, polls, setup, reported>>
    /\ UNCHANGED calls

----------------------------------------------------------------------------
(* m1_foundation/ai_attack_generator.py: generate_attack_userop *)

\* A text is a sequence of tokens: a blank, a line feed, a code fence, a
\* JSON object, and a word that is neither.
Blank == " "
LineFeed == "LF"
Fence == "FENCE"
JsonObject == "{}"
Word == "json"
Tokens == {Blank, LineFeed, Fence, JsonObject, Word}
Whitespace == {Blank, LineFeed}

\* str.strip()
RECURSIVE LStrip(_)
LStrip(text) ==
    IF text # <<>> /\ text[1] \in Whitespace THEN LStrip(Tail(text)) ELSE text
RECURSIVE RStrip(_)
RStrip(text) ==
    IF text # <<>> /\ text[Len(text)] \in Whitespace THEN RStrip(Front(text)) ELSE text
strip(text) == RStrip(LStrip(text))

\* str.startswith of the three backquotes of a fence
StartsWithFence(text) == text # <<>> /\ text[1] = Fence

\* str.split('\n')
RECURSIVE split(_)
split(text) ==
    IF \A i \in 1..Len(text) : text[i] # LineFeed THEN <<text>>
    ELSE LET i == CHOOSE j \in 1..Len(text) :
                    /\ text[j] = LineFeed
                    /\ \A k \in 1..(j - 1) : text[k] # LineFeed
         IN <<SubSeq(text, 1, i - 1)>> \o split(SubSeq(text, i + 1, Len(text)))

\* '\n'.join(json_lines)
RECURSIVE join(_)
join(lines) ==
    IF lines = <<>> THEN <<>>
    ELSE IF Len(lines) = 1 THEN lines[1]
    ELSE lines[1] \o <<LineFeed>> \o join(Tail(lines))

\* lines 143-150: the loop over the lines of a fenced response
RECURSIVE JsonLines(_, _)
JsonLines(lines, in_code_block) ==
    IF lines = <<>> THEN <<>>
    ELSE IF StartsWithFence(strip(Head(lines)))
      THEN JsonLines(Tail(lines), ~in_code_block)
    ELSE IF in_code_block \/ ~StartsWithFence(strip(Head(lines)))
      THEN <<Head(lines)>> \o JsonLines(Tail(lines), in_code_block)
    ELSE JsonLines(Tail(lines), in_code_block)

\* lines 140-151: cleaned_text
CleanedText(text) ==
    LET cleaned_text == strip(text)
    IN IF StartsWithFence(cleaned_text)
         THEN strip(join(JsonLines(split(cleaned_text), FALSE)))
         ELSE cleaned_text

\* json.loads: white space around the one value is skipped, anything else
\* raises JSONDecodeError
NotWhitespace(t) == t \notin Whitespace
json_loads(text) ==
    IF SelectSeq(text, NotWhitespace) = <<JsonObject>>
      THEN [raised |-> FALSE, value |-> JsonObject]
      ELSE [raised |-> TRUE, value |-> "JSONDecodeError"]

\* attack_type or "integer_overflow_gas"
AttackTypeOrDefault(t) == IF t = None \/ t = Some("") THEN "integer_overflow_gas" ELSE t[1]

\* the dicts generate_attack_userop returns; a key the dict lacks is None
UserOpDict(value) ==
    [userop |-> Some(value), error |-> None, raw_response |-> None,
     cleaned_attempt |-> None, attack_type |-> None]
\* lines 156-161
ParseErrorKeepsCleaned(text, cleaned, t) ==
    [userop |-> None, error |-> Some("Failed to parse JSON"),
     raw_response |-> Some(cleaned), cleaned_attempt |-> Some(cleaned),
     attack_type |-> Some(AttackTypeOrDefault(t))]
ParseError(text, cleaned, t) ==
    [userop |-> None, error |-> Some("Failed to parse JSON"),
     raw_response |-> Some(text), cleaned_attempt |-> Some(cleaned),
     attack_type |-> Some(AttackTypeOrDefault(t))]
\* lines 162-166
CallError(e, t) ==
    [userop |-> None, error |-> Some(Str(e)), raw_response |-> None,
     cleaned_attempt |-> None, attack_type |-> Some(AttackTypeOrDefault(t))]

\* _call_deepseek_api, lines 106-117: what the call can raise
ApiErrors ==
    { Exc("ConnectionError", "HTTPSConnectionPool: Max retries exceeded"),
      Exc("Exception", "API request failed: 401 - Unauthorized"),
      Exc("JSONDecodeError", "Expecting value: line 1 column 1 (char 0)") }

\* the values of the argument attack_type
UserAttackTypes == {None, Some(""), Some("signature_forgery")}

\* lines 138 and 162: the API call raises, the except clause returns
CallRaises(t) ==
    /\ aiPc = "idle"
    /\ user_attack_type' = t
    /\ \E e \in ApiErrors : returned' = Some(CallError(e, t))
    /\ aiPc' = "returned"
    /\ UNCHANGED response_text

\* line 138: response_text = self._call_deepseek_api(...)
CallReturns(t, text) ==
    /\ aiPc = "idle"
    /\ user_attack_type' = t
    /\ response_text' = Some(text)
    /\ aiPc' = "called"
    /\ UNCHANGED returned

\* lines 140-161: clean the text, parse it, return
ParseResponse ==
    /\ aiPc = "called"
    /\ LET cleaned_text == CleanedText(response_text[1])
           userop == json_loads(cleaned_text)
       IN returned' =
            IF userop.raised
              THEN Some(ParseError(response_text[1], cleaned_text, user_attack_type))
              ELSE Some(UserOpDict(userop.value))
    /\ aiPc' = "returned"
    /\ UNCHANGED <<user_attack_type, response_text>>

----------------------------------------------------------------------------
(* V2/tests/test_signature_security-fixed.py: SignatureSecurityTest *)

\* The text of an exception is a sequence of words.  `keyword in text` is a
\* test for a substring: a word holds the keywords listed for it.
Substrings(w) ==
    IF w = "reverted:" THEN {"reverted:", "reverted", "revert"}
    ELSE IF w = "failed:" THEN {"failed:", "failed"}
    ELSE {w}

\* str.lower()
LowerWord(w) ==
    IF w = "Failed" THEN "failed"
    ELSE IF w = "Transaction" THEN "transaction"
    ELSE IF w = "HTTPConnectionPool:" THEN "httpconnectionpool:"
    ELSE IF w = "Max" THEN "max"
    ELSE w
lower(text) == [k \in 1..Len(text) |-> LowerWord(text[k])]

\* keyword in text, for a keyword of one or more words
In(keyword, text) ==
    \E i \in 1..(Len(text) - Len(keyword) + 1) :
      \A j \in 1..Len(keyword) : keyword[j] \in Substrings(text[i + j - 1])

\* text[:n]: the words that fit into the first n characters
RECURSIVE Slice(_, _)
Slice(text, n) ==
    IF text = <<>> \/ Len(text[1]) > n THEN <<>>
    ELSE <<text[1]>> \o Slice(Tail(text), n - Len(text[1]) - 1)

\* what handleOps(...).transact(...) raises in the test script
TestTransactErrors ==
    { Exc("ContractLogicError", <<"execution", "reverted:", "AA24", "signature", "error">>),
      Exc("ContractCustomError", <<"0x220266b6">>),
      Exc("ConnectionError", <<"HTTPConnectionPool:", "Max", "retries", "exceeded",
                               "Failed", "to", "establish", "a", "new", "connection">>),
      Exc("ValueError", <<"transaction", "type", "not", "accepted">>),
      Exc("ReadTimeout", <<"HTTPConnectionPool:", "Read", "timed", "out",
                           "after", "the", "node", "had", "accepted">>) }
\* what wait_for_transaction_receipt raises in the test script
TestWaitErrors ==
    { Exc("ConnectionError", <<"HTTPConnectionPool:", "Max", "retries", "exceeded",
                               "Failed", "to", "establish", "a", "new", "connection">>) }
TestTimeExhausted ==
    Exc("TimeExhausted", <<"Transaction", "is", "not", "in", "the", "chain",
                           "after", "120", "seconds">>)

\* one handleOps transaction of a test: what the chain did with it (sent,
\* receipt status when mined) and what the test saw (receipt or exception)
Attempt(sent, status, receipt, exc) ==
    [sent |-> sent, status |-> status, receipt |-> receipt, exc |-> exc]
Outcomes ==
    { Attempt(TRUE, Some(st), Some(st), None) : st \in {0, 1} }
      \cup { Attempt(FALSE, None, None, Some(e)) : e \in TestTransactErrors }
      \cup { Attempt(TRUE, Some(st), None, Some(e)) : st \in {0, 1}, e \in TestWaitErrors }
      \cup { Attempt(TRUE, None, None, Some(TestTimeExhausted)) }

\* the chain after the transaction of an attempt
ChainAfter(n, outcome) ==
    IF outcome.status # None THEN NonceAfterHandleOps(n, outcome.status[1]) ELSE n

\* get_account_nonce, lines 51-61: the value of getNonce, 0 when the call fails
get_account_nonce(n, ok) == IF ok THEN n ELSE 0

\* the dicts the test methods return (the status without its emoji)
Verdict(name, status, severity, error) ==
    [test |-> name, status |-> status, severity |-> severity, error |-> error]

\* test_zero_signature, lines 165-226
ZeroSignatureVerdict(outcome) ==
    IF outcome.receipt # None
      THEN IF outcome.receipt[1] = 1
             THEN Verdict("zero_signature", "CRITICAL VULNERABILITY", "CRITICAL", None)
             ELSE Verdict("zero_signature", "PASSED", "NONE", None)
    ELSE LET error_msg == Str(outcome.exc[1])
         IN IF IsContractLogicError(outcome.exc[1])
              THEN IF \E keyword \in {<<"Invalid", "signature">>, <<"Signature">>,
                                      <<"revert">>, <<"failed">>, <<"denied">>} :
                        In(keyword, error_msg)
                     THEN Verdict("zero_signature", "PASSED", "NONE",
                                  Some(Slice(error_msg, 100)))
                     ELSE Verdict("zero_signature", "WARNING", "MEDIUM",
                                  Some(Slice(error_msg, 100)))
            ELSE IF \/ In(<<"revert">>, lower(error_msg))
                    \/ In(<<"denied">>, lower(error_msg))
                    \/ In(<<"failed">>, lower(error_msg))
                   THEN Verdict("zero_signature", "PASSED", "NONE",
                                Some(Slice(error_msg, 100)))
                   ELSE Verdict("zero_signature", "TEST FAILED", "INFO",
                                Some(Slice(error_msg, 200)))

\* test_short_signature, lines 232-238
test_cases ==
    << [name |-> <<"Empty", "signature">>, signature |-> <<>>],
       [name |-> <<"1", "byte">>, signature |-> Bytes(1, 1)],
       [name |-> <<"32", "bytes">>, signature |-> Bytes(1, 32)],
       [name |-> <<"64", "bytes">>, signature |-> Bytes(1, 64)],
       [name |-> <<"66", "bytes">>, signature |-> Bytes(1, 66)] >>

\* test_short_signature, lines 267-279: the string appended to results
ShortSignatureResult(name, outcome) ==
    IF outcome.receipt # None
      THEN IF outcome.receipt[1] = 1
             THEN name \o <<"accepted">>
             ELSE name \o <<"rejected">>
    ELSE LET error_msg == Str(outcome.exc[1])
         IN IF In(<<"revert">>, lower(error_msg)) \/ In(<<"failed">>, lower(error_msg))
              THEN name \o <<"rejected">>
              ELSE name \o <<"failed:">> \o Slice(error_msg, 50)

\* test_short_signature, lines 281-297
ShortSignatureVerdict(rs) ==
    IF \E k \in 1..Len(rs) : In(<<"accepted">>, rs[k])
      THEN Verdict("short_signature", "MEDIUM VULNERABILITY", "MEDIUM", None)
      ELSE Verdict("short_signature", "PASSED", "NONE", None)

\* a test method is called
StartTest(name) ==
    /\ testPc = "idle"
    /\ test' = Some(name)
    /\ testPc' = "nonce"
    /\ UNCHANGED <<onchain_nonce, initial_nonce, final_nonce,
                   final_nonce_after_replay, case, details, verdict, attempts,
                   looked_up>>

\* the first statement of the three tests: get_account_nonce(account, 0)
ReadInitialNonce ==
    /\ testPc = "nonce"
    /\ \E ok \in BOOLEAN : initial_nonce' = Some(get_account_nonce(onchain_nonce, ok))
    /\ looked_up' = Append(looked_up, onchain_nonce)
    /\ testPc' = "gas_price"
    /\ UNCHANGED <<test, onchain_nonce, final_nonce, final_nonce_after_replay, case,
                   details, verdict, attempts>>

\* gas_price = self.w3.eth.gas_price, outside every try: when the node cannot
\* be reached the exception leaves the test method
ReadGasPrice ==
    /\ testPc = "gas_price"
    /\ \/ /\ testPc' = "attempt"
          /\ case' = 1
       \/ /\ testPc' = "raised"
          /\ UNCHANGED case
    /\ UNCHANGED <<test, onchain_nonce, initial_nonce, final_nonce,
                   final_nonce_after_replay, details, verdict, attempts, looked_up>>

\* test_zero_signature, lines 158-226: the one attempt and the verdict
ZeroSignatureAttempt ==
    /\ testPc = "attempt"
    /\ test = Some("zero_signature")
    /\ \E outcome \in Outcomes :
         /\ attempts' = Append(attempts, outcome)
         /\ onchain_nonce' = ChainAfter(onchain_nonce, outcome)
         /\ verdict' = Some(ZeroSignatureVerdict(outcome))
    /\ testPc' = "returned"
    /\ UNCHANGED <<test, initial_nonce, final_nonce, final_nonce_after_replay, case,
                   details, looked_up>>

\* test_short_signature, lines 246-279: one iteration of the loop
ShortSignatureAttempt ==
    /\ testPc = "attempt"
    /\ test = Some("short_signature")
    /\ case <= Len(test_cases)
    /\ \E outcome \in Outcomes :
         /\ attempts' = Append(attempts, outcome)
         /\ onchain_nonce' = ChainAfter(onchain_nonce, outcome)
         /\ details' = Append(details, ShortSignatureResult(test_cases[case].name, outcome))
    /\ case' = case + 1
    /\ UNCHANGED <<test, testPc, initial_nonce, final_nonce,
                   final_nonce_after_replay, verdict, looked_up>>

\* test_short_signature, lines 281-297: the loop is over
ShortSignatureReturn ==
    /\ testPc = "attempt"
    /\ test = Some("short_signature")
    /\ case > Len(test_cases)
    /\ verdict' = Some(ShortSignatureVerdict(details))
    /\ testPc' = "returned"
    /\ UNCHANGED <<test, onchain_nonce, initial_nonce, final_nonce,
                   final_nonce_after_replay, case, details, attempts, looked_up>>

\* test_replay_attack, lines 361-384: the first attempt
ReplayFirstAttempt ==
    /\ testPc = "attempt"
    /\ test = Some("replay_attack")
    /\ \E outcome \in Outcomes :
         /\ attempts' = Append(attempts, outcome)
         /\ onchain_nonce' = ChainAfter(onchain_nonce, outcome)
         /\ IF outcome.receipt = Some(1)
              THEN /\ verdict' = Some(Verdict("replay_attack", "CRITICAL VULNERABILITY",
                                             "CRITICAL", None))
                   /\ testPc' = "returned"
              ELSE /\ testPc' = "final_nonce"
                   /\ UNCHANGED verdict
    /\ UNCHANGED <<test, initial_nonce, final_nonce, final_nonce_after_replay, case,
                   details, looked_up>>

\* test_replay_attack, lines 386-391 and 434-442: the nonce after the attempt
ReplayReadFinalNonce ==
    /\ testPc = "final_nonce"
    /\ \E ok \in BOOLEAN :
         LET n == get_account_nonce(onchain_nonce, ok)
         IN /\ final_nonce' = Some(n)
            /\ IF n = initial_nonce[1]
                 THEN /\ testPc' = "replay"
                      /\ UNCHANGED verdict
                 ELSE /\ verdict' = Some(Verdict("replay_attack", "CRITICAL VULNERABILITY",
                                                "CRITICAL", None))
                      /\ testPc' = "returned"
    /\ looked_up' = Append(looked_up, onchain_nonce)
    /\ UNCHANGED <<test, onchain_nonce, initial_nonce, final_nonce_after_replay, case,
                   details, attempts>>

\* test_replay_attack, lines 395-415: the same operation is sent again
ReplaySecondAttempt ==
    /\ testPc = "replay"
    /\ \E outcome \in Outcomes :
         /\ attempts' = Append(attempts, outcome)
         /\ onchain_nonce' = ChainAfter(onchain_nonce, outcome)
         /\ IF outcome.receipt = Some(1)
              THEN /\ verdict' = Some(Verdict("replay_attack", "CRITICAL VULNERABILITY",
                                             "CRITICAL", None))
                   /\ testPc' = "returned"
              ELSE /\ testPc' = "nonce_after_replay"
                   /\ UNCHANGED verdict
    /\ UNCHANGED <<test, initial_nonce, final_nonce, final_nonce_after_replay, case,
                   details, looked_up>>

\* test_replay_attack, lines 417-433: the nonce after the replay, the verdict
ReplayReadNonceAfterReplay ==
    /\ testPc = "nonce_after_replay"
    /\ \E ok \in BOOLEAN :
         LET n == get_account_nonce(onchain_nonce, ok)
         IN /\ final_nonce_after_replay' = Some(n)
            /\ verdict' = IF n = initial_nonce[1]
                            THEN Some(Verdict("replay_attack", "PASSED", "NONE", None))
                            ELSE Some(Verdict("replay_attack", "WARNING", "MEDIUM", None))
    /\ looked_up' = Append(looked_up, onchain_nonce)
    /\ testPc' = "returned"
    /\ UNCHANGED <<test, onchain_nonce, initial_nonce, final_nonce, case, details,
                   attempts>>

----------------------------------------------------------------------------
(* Specifications *)

\* no BatchRunner has been constructed
RunnerStart ==
    /\ attacks = <<>>
    /\ results = <<>>
    /\ idx = 0
    /\ pc = "start"
    /\ op = None
    /\ tx_hash = None
    /\ mined = <<>>
    /\ current_nonce = None
    /\ log = <<>>
    /\ polls = 0
    /\ setup = None
    /\ exit_code = None
    /\ reported = None
    /\ interrupted = FALSE
    /\ calls = <<>>

PackIdle ==
    /\ arg_a = Zero
    /\ arg_b = Zero
    /\ packed = None

TestIdle ==
    /\ test = None
    /\ testPc = "idle"
    /\ onchain_nonce = 0
    /\ initial_nonce = None
    /\ final_nonce = None
    /\ final_nonce_after_replay = None
    /\ case = 0
    /\ details = <<>>
    /\ verdict = None
    /\ attempts = <<>>
    /\ looked_up = <<>>

AIIdle ==
    /\ user_attack_type = None
    /\ response_text = None
    /\ returned = None
    /\ aiPc = "idle"

GeneratorIdle ==
    /\ count = 0
    /\ batch = <<>>
    /\ genPc = "idle"
    /\ firstBatch = <<>>
    /\ run = 1

\* the batch runner
Init ==
    /\ RunnerStart
    /\ chainNonce \in StartNonces
    /\ stub \in EntryPoints
    /\ PackIdle
    /\ GeneratorIdle
    /\ AIIdle
    /\ TestIdle

\* the steps of the runner itself
RunnerStep ==
    \/ ConstructUserOp
    \/ Transact
    \/ WaitReceipt
    \/ WaitPoll
    \/ WaitTimeout

Next ==
    \/ Setup /\ UNCHANGED packVars /\ UNCHANGED genVars
         /\ UNCHANGED aiVars /\ UNCHANGED testVars
    \/ (pc = "idle" /\ \E list \in ListsUpTo(TestVectors, MaxBatch) : ExecuteBatch(list))
         /\ UNCHANGED packVars /\ UNCHANGED genVars
         /\ UNCHANGED aiVars /\ UNCHANGED testVars
    \/ ConstructUserOp /\ UNCHANGED packVars /\ UNCHANGED genVars
         /\ UNCHANGED aiVars /\ UNCHANGED testVars
    \/ Transact /\ UNCHANGED packVars /\ UNCHANGED genVars
         /\ UNCHANGED aiVars /\ UNCHANGED testVars
    \/ WaitReceipt /\ UNCHANGED packVars /\ UNCHANGED genVars
         /\ UNCHANGED aiVars /\ UNCHANGED testVars
    \/ WaitPoll /\ UNCHANGED packVars /\ UNCHANGED genVars
         /\ UNCHANGED aiVars /\ UNCHANGED testVars
    \/ WaitTimeout /\ UNCHANGED packVars /\ UNCHANGED genVars
         /\ UNCHANGED aiVars /\ UNCHANGED testVars
    \/ WaitRaises /\ UNCHANGED packVars /\ UNCHANGED genVars
         /\ UNCHANGED aiVars /\ UNCHANGED testVars
    \/ MinePending /\ UNCHANGED packVars /\ UNCHANGED genVars
         /\ UNCHANGED aiVars /\ UNCHANGED testVars
    \/ MainFinish /\ UNCHANGED packVars /\ UNCHANGED genVars
         /\ UNCHANGED aiVars /\ UNCHANGED testVars
    \/ Interrupt /\ UNCHANGED packVars /\ UNCHANGED genVars
         /\ UNCHANGED aiVars /\ UNCHANGED testVars

Spec == Init /\ [][Next]_vars

\* the batch runner on short lists, with the fairness of a sequential
\* program: a step of the runner that can be taken is taken
NextLive ==
    \/ Setup /\ UNCHANGED packVars /\ UNCHANGED genVars
         /\ UNCHANGED aiVars /\ UNCHANGED testVars
    \/ (pc = "idle" /\ \E list \in ListsUpTo(TestVectors, LiveBatch) : ExecuteBatch(list))
         /\ UNCHANGED packVars /\ UNCHANGED genVars
         /\ UNCHANGED aiVars /\ UNCHANGED testVars
    \/ RunnerStep /\ UNCHANGED packVars /\ UNCHANGED genVars
         /\ UNCHANGED aiVars /\ UNCHANGED testVars
    \/ WaitRaises /\ UNCHANGED packVars /\ UNCHANGED genVars
         /\ UNCHANGED aiVars /\ UNCHANGED testVars
    \/ MinePending /\ UNCHANGED packVars /\ UNCHANGED genVars
         /\ UNCHANGED aiVars /\ UNCHANGED testVars
    \/ MainFinish /\ UNCHANGED packVars /\ UNCHANGED genVars
         /\ UNCHANGED aiVars /\ UNCHANGED testVars

SpecLive ==
    /\ Init
    /\ [][NextLive]_vars
    /\ WF_vars(RunnerStep /\ UNCHANGED packVars /\ UNCHANGED genVars
                      /\ UNCHANGED aiVars /\ UNCHANGED testVars)

\* pack_uint128_pair
InitPack ==
    /\ RunnerStart
    /\ chainNonce = 0
    /\ stub = "node"
    /\ PackIdle
    /\ GeneratorIdle
    /\ AIIdle
    /\ TestIdle

NextPack ==
    (\E x \in PackInputs, y \in PackInputs : Pack(x, y))
      /\ UNCHANGED runnerVars /\ UNCHANGED genVars
         /\ UNCHANGED aiVars /\ UNCHANGED testVars

SpecPack == InitPack /\ [][NextPack]_vars

\* one run of MockGenerator.generate_batch
NextGen ==
    \/ (\E c \in 0..MaxCount : GenerateBatch(c))
         /\ UNCHANGED runnerVars /\ UNCHANGED packVars
         /\ UNCHANGED aiVars /\ UNCHANGED testVars
    \/ GenerateNext /\ UNCHANGED runnerVars /\ UNCHANGED packVars
         /\ UNCHANGED aiVars /\ UNCHANGED testVars
    \/ GenerateReturn /\ UNCHANGED runnerVars /\ UNCHANGED packVars
         /\ UNCHANGED aiVars /\ UNCHANGED testVars

SpecGen == InitPack /\ [][NextGen]_vars

\* two runs of MockGenerator.generate_batch with the same count
NextRepeat ==
    \/ (\E c \in 0..RepeatCount : GenerateBatch(c))
         /\ UNCHANGED runnerVars /\ UNCHANGED packVars
         /\ UNCHANGED aiVars /\ UNCHANGED testVars
    \/ GenerateNext /\ UNCHANGED runnerVars /\ UNCHANGED packVars
         /\ UNCHANGED aiVars /\ UNCHANGED testVars
    \/ GenerateReturn /\ UNCHANGED runnerVars /\ UNCHANGED packVars
         /\ UNCHANGED aiVars /\ UNCHANGED testVars
    \/ RunAgain /\ UNCHANGED runnerVars /\ UNCHANGED packVars
         /\ UNCHANGED aiVars /\ UNCHANGED testVars

SpecRepeat == InitPack /\ [][NextRepeat]_vars

\* run_batch.py main from end to end against a reverting entry point:
\* generate_batch(count), BatchRunner(), execute_batch(attacks), the report.
\* The draws are the replay vector and the all-zero signature vector.
E2EDraws(i) ==
    Draws("replay", i) \cup { _generate_signature_attack(i, "zero", 0, 0) }

InitE2E ==
    /\ RunnerStart
    /\ chainNonce \in StartNonces
    /\ stub \in RevertingEntryPoints
    /\ PackIdle
    /\ GeneratorIdle
    /\ AIIdle
    /\ TestIdle

NextE2E ==
    \/ GenerateBatch(E2ECount)
         /\ UNCHANGED runnerVars /\ UNCHANGED packVars /\ UNCHANGED aiVars /\ UNCHANGED testVars
    \/ (GenerateNext /\ batch'[Len(batch')] \in E2EDraws(Len(batch)))
         /\ UNCHANGED runnerVars /\ UNCHANGED packVars /\ UNCHANGED aiVars /\ UNCHANGED testVars
    \/ GenerateReturn
         /\ UNCHANGED runnerVars /\ UNCHANGED packVars /\ UNCHANGED aiVars /\ UNCHANGED testVars
    \/ (genPc = "returned" /\ Setup)
         /\ UNCHANGED packVars /\ UNCHANGED genVars /\ UNCHANGED aiVars /\ UNCHANGED testVars
    \/ (genPc = "returned" /\ ExecuteBatch(batch))
         /\ UNCHANGED packVars /\ UNCHANGED genVars /\ UNCHANGED aiVars /\ UNCHANGED testVars
    \/ ConstructUserOp
         /\ UNCHANGED packVars /\ UNCHANGED genVars /\ UNCHANGED aiVars /\ UNCHANGED testVars
    \/ Transact
         /\ UNCHANGED packVars /\ UNCHANGED genVars /\ UNCHANGED aiVars /\ UNCHANGED testVars
    \/ WaitReceipt
         /\ UNCHANGED packVars /\ UNCHANGED genVars /\ UNCHANGED aiVars /\ UNCHANGED testVars
    \/ MainFinish
         /\ UNCHANGED packVars /\ UNCHANGED genVars /\ UNCHANGED aiVars /\ UNCHANGED testVars

SpecE2E == InitE2E /\ [][NextE2E]_vars

\* one call of AIAttackGenerator.generate_attack_userop
NextAI ==
    \/ (\E t \in UserAttackTypes : CallRaises(t))
         /\ UNCHANGED runnerVars /\ UNCHANGED packVars /\ UNCHANGED genVars
         /\ UNCHANGED testVars
    \/ (\E t \in UserAttackTypes, text \in ListsUpTo(Tokens, MaxText) :
           CallReturns(t, text))
         /\ UNCHANGED runnerVars /\ UNCHANGED packVars /\ UNCHANGED genVars
         /\ UNCHANGED testVars
    \/ ParseResponse
         /\ UNCHANGED runnerVars /\ UNCHANGED packVars /\ UNCHANGED genVars
         /\ UNCHANGED testVars

SpecAI == InitPack /\ [][NextAI]_vars

\* one test method of SignatureSecurityTest, on an account whose nonce is
\* one of StartNonces
TestNames == {"zero_signature", "short_signature", "replay_attack"}

InitTest ==
    /\ RunnerStart
    /\ chainNonce = 0
    /\ stub = "node"
    /\ PackIdle
    /\ GeneratorIdle
    /\ AIIdle
    /\ test = None
    /\ testPc = "idle"
    /\ onchain_nonce \in StartNonces
    /\ initial_nonce = None
    /\ final_nonce = None
    /\ final_nonce_after_replay = None
    /\ case = 0
    /\ details = <<>>
    /\ verdict = None
    /\ attempts = <<>>
    /\ looked_up = <<>>

TestFrame ==
    UNCHANGED runnerVars /\ UNCHANGED packVars /\ UNCHANGED genVars /\ UNCHANGED aiVars

NextTest ==
    \/ (\E name \in TestNames : StartTest(name)) /\ TestFrame
    \/ ReadInitialNonce /\ TestFrame
    \/ ReadGasPrice /\ TestFrame
    \/ ZeroSignatureAttempt /\ TestFrame
    \/ ShortSignatureAttempt /\ TestFrame
    \/ ShortSignatureReturn /\ TestFrame
    \/ ReplayFirstAttempt /\ TestFrame
    \/ ReplayReadFinalNonce /\ TestFrame
    \/ ReplaySecondAttempt /\ TestFrame
    \/ ReplayReadNonceAfterReplay /\ TestFrame

SpecTest == InitTest /\ [][NextTest]_vars

----------------------------------------------------------------------------
(* Properties *)

Executed == 1..Len(results)
ZeroSignatureVector == _generate_signature_attack(0, "zero", 0, 0)

\* C1: execute_batch returns one result per input vector, the k-th result
\* carrying the name of the k-th vector, whatever was raised on the way; the
\* loop never stops before the last vector and never skips one.
C1_BatchComplete ==
    /\ Len(log) = Len(results)
    /\ pc \in {"construct", "submit", "wait", "returned"} =>
         /\ Len(results) = idx - 1
         /\ Len(results) <= Len(attacks)
         /\ \A k \in Executed : results[k].name = attacks[k].name
    /\ pc = "returned" => Len(results) = Len(attacks)

\* a failure on the first vector, and the second vector executed all the same
C1_Witness ==
    /\ pc = "returned"
    /\ Len(results) = 2
    /\ results[1].status = "ERROR"
    /\ results[2].status = "VULNERABLE"
    /\ attacks[1].name # attacks[2].name

\* C2: with a receipt in hand the status is VULNERABLE exactly when the
\* receipt status is 1 and BLOCKED otherwise; the all-zero signature vector
\* run against the entry point that accepts everything is VULNERABLE.
C2_ReceiptDecides ==
    \A k \in Executed :
      /\ log[k].receipt # None =>
           /\ results[k].status = "VULNERABLE" <=> log[k].receipt[1] = 1
           /\ results[k].status = "BLOCKED" <=> log[k].receipt[1] # 1
      /\ (stub = "acceptAll" /\ attacks[k] = ZeroSignatureVector) =>
           results[k].status = "VULNERABLE"

C2_Witness ==
    /\ stub = "acceptAll"
    /\ \E k \in Executed :
         /\ attacks[k] = ZeroSignatureVector
         /\ attacks[k].signature = Some(Bytes(0, 65))
         /\ log[k].receipt = Some(1)
         /\ results[k].status = "VULNERABLE"

\* C3: a ContractLogicError raised by the submission or by the wait gives a
\* BLOCKED result without transaction reference whose error detail is the
\* message of the rejection, character for character.
C3_RejectionKept ==
    \A k \in Executed :
      (log[k].exc # None /\ IsContractLogicError(log[k].exc[1])) =>
        /\ results[k].status = "BLOCKED"
        /\ results[k].tx_hash = None
        /\ results[k].error = Some(log[k].exc[1].message)

C3_Witness ==
    \E k \in Executed :
      /\ log[k].exc = Some(Exc("ContractLogicError",
                               "execution reverted: AA24 signature error"))
      /\ results[k].status = "BLOCKED"
      /\ results[k].error = Some("execution reverted: AA24 signature error")

\* C4: an exception that is not a ContractLogicError gives an ERROR result,
\* never BLOCKED and never VULNERABLE.
C4_FailureIsError ==
    \A k \in Executed :
      (log[k].exc # None /\ ~IsContractLogicError(log[k].exc[1])) =>
        results[k].status = "ERROR"

C4_Witness ==
    \E k \in Executed :
      /\ log[k].exc = Some(TimeExhausted)
      /\ results[k].status = "ERROR"

\* C5: _construct_user_op never raises for want of an encodable value: an
\* exception that leaves it is a transport failure of the node.
C5_EncoderNeverRaises ==
    \A k \in Executed :
      (log[k].stage = "construct" /\ log[k].exc # None) =>
        log[k].exc[1] \in TransportErrors

\* C6: the nonce of the tuple _construct_user_op returns is the nonce read
\* from the chain plus the vector's offset, negative values included; a read
\* of 5 and an offset of -1 give 4.
C6_NonceNotClamped ==
    pc \in {"submit", "wait"} =>
      /\ op # None /\ current_nonce # None
      /\ op[1][2] = current_nonce[1] + attacks[idx].nonce_offset
      /\ (current_nonce[1] = 5 /\ attacks[idx].nonce_offset = -1) => op[1][2] = 4
      /\ (current_nonce[1] = 0 /\ attacks[idx].nonce_offset = -1) => op[1][2] = -1

C6_Witness ==
    /\ pc = "submit"
    /\ current_nonce = Some(5)
    /\ attacks[idx].nonce_offset = -1
    /\ op[1][2] = 4

\* the value w mod 2^128 of a big-endian word w: its sixteen low-order bytes
LowHalf(w) == SubSeq(w, Len(w) - 15, Len(w))
\* the value w div 2^128 of a big-endian word w: the bytes above them
HighHalf(w) == SubSeq(w, 1, Len(w) - 16)

InUint128(x) == ~x.neg /\ Len(x.mag) <= 16

\* C7: for a and b in 0 .. 2^128 - 1 the returned word w has
\* w mod 2^128 = a and w div 2^128 = b.
C7_PackRoundTrip ==
    (packed # None /\ InUint128(arg_a) /\ InUint128(arg_b)) =>
      /\ ~packed[1].raised
      /\ Strip(LowHalf(packed[1].value)) = arg_a.mag
      /\ Strip(HighHalf(packed[1].value)) = arg_b.mag

C7_Witness ==
    /\ packed # None
    /\ arg_a = MaxUint128
    /\ arg_b = PyInt(FALSE, <<1, 2, 3>>)
    /\ ~packed[1].raised

\* x - y for two byte strings of one length with x >= y
RECURSIVE SubBytes(_, _, _)
SubBytes(x, y, borrow) ==
    IF x = <<>> THEN <<>>
    ELSE LET d == x[Len(x)] - y[Len(y)] - borrow
         IN SubBytes(Front(x), Front(y), IF d < 0 THEN 1 ELSE 0)
              \o <<IF d < 0 THEN d + 256 ELSE d>>

\* x mod 2^128 as sixteen bytes, from the sign and the magnitude of x
Mod2Pow128(x) ==
    LET m == LowBytes(x.mag, 16)
    IN IF ~x.neg \/ m = Bytes(0, 16) THEN m
       ELSE LowHalf(SubBytes(<<1>> \o Bytes(0, 16), <<0>> \o m, 0))

\* C8: for any two integers pack_uint128_pair returns, without raising,
\* exactly 32 bytes whose low half is a mod 2^128 and whose high half is
\* b mod 2^128; for a = 2^128 the low half is 0.
C8_PackTruncates ==
    packed # None =>
      /\ ~packed[1].raised
      /\ Len(packed[1].value) = 32
      /\ LowHalf(packed[1].value) = Mod2Pow128(arg_a)
      /\ HighHalf(packed[1].value) = Mod2Pow128(arg_b)
      /\ arg_a = TwoPow128 => LowHalf(packed[1].value) = Bytes(0, 16)

C8_Witness ==
    /\ packed # None
    /\ arg_a = TwoPow128
    /\ arg_b = PyInt(TRUE, <<1>>)
    /\ LowHalf(packed[1].value) = Bytes(0, 16)
    /\ HighHalf(packed[1].value) = Bytes(255, 16)

\* C9: generate_batch(count) returns exactly count vectors, no two of them
\* with the same name.
C9_CountAndUniqueNames ==
    genPc = "returned" =>
      /\ Len(batch) = count
      /\ \A i \in 1..Len(batch), j \in 1..Len(batch) :
           i # j => batch[i].name # batch[j].name

C9_Witness ==
    /\ genPc = "returned"
    /\ count = 3
    /\ batch[1].attack_type = "replay"
    /\ batch[2].attack_type = "replay"
    /\ batch[3].attack_type = "signature_forgery"

\* C10: two runs of generate_batch with the same configuration and the same
\* count return the same sequence of vectors.
C10_Repeatable ==
    (run = 2 /\ genPc = "returned") => batch = firstBatch

\* C11: the wait for the receipt is bounded: a vector whose transaction has
\* been submitted always gets its result, and when no receipt has arrived by
\* the time the bound expires the result is ERROR.
C11_WaitBounded ==
    /\ [](polls <= MaxPolls)
    /\ [](\A k \in Executed :
           (log[k].stage = "wait" /\ log[k].exc = Some(TimeExhausted)) =>
             (results[k].status = "ERROR" /\ log[k].receipt = None))
    /\ \A i \in 1..LiveBatch : (pc = "wait" /\ idx = i) ~> (Len(results) >= i)

\* a transaction that was never mined, reported after the last poll
C11_Witness ==
    /\ pc = "returned"
    /\ \E k \in Executed :
         /\ log[k].stage = "wait"
         /\ log[k].exc = Some(TimeExhausted)
         /\ mined[Len(mined)] = None
         /\ results[k].status = "ERROR"
         /\ results[k].tx_hash = None

\* C12: a failure of the batch setup (node not reachable, deployments file
\* missing, address or ABI entry missing) ends the run with a non-zero exit
\* status before any handleOps transaction is sent, and no result is made.
SetupFailed == setup # None /\ setup # Some("ok")
C12_SetupFailureFatal ==
    SetupFailed =>
      /\ pc = "exit"
      /\ exit_code # None /\ exit_code[1] # 0
      /\ mined = <<>>
      /\ attacks = <<>> /\ results = <<>> /\ log = <<>>
      /\ reported = None

C12_Witness ==
    /\ setup = Some("missing_key")
    /\ exit_code = Some(1)
    /\ pc = "exit"

\* C13: a run stopped between two vectors is reported as a partial batch:
\* the results collected before the stop are handed to the report.
C13_AbortReportsPartial ==
    interrupted => reported = Some(results)

\* C14: the exit status of the command is non-zero when some result is
\* VULNERABLE and zero when the run completed with none.
SomeVulnerable == \E k \in Executed : results[k].status = "VULNERABLE"
C14_ExitStatusTellsVulnerable ==
    (pc = "exit" /\ reported # None) =>
      (exit_code # Some(0) <=> SomeVulnerable)

\* C15: the same rejected operation submitted twice in a row is BLOCKED both
\* times, and the account nonce after the first and after the second attempt
\* is the nonce read before the first.
Rejected(k) ==
    \/ /\ log[k].stage = "transact"
       /\ log[k].exc # None
       /\ IsContractLogicError(log[k].exc[1])
    \/ log[k].receipt = Some(0)
C15_RejectionIdempotent ==
    \A k \in Executed :
      (k + 1 \in Executed /\ attacks[k] = attacks[k + 1]
         /\ Rejected(k) /\ Rejected(k + 1)) =>
        /\ results[k].status = "BLOCKED"
        /\ results[k + 1].status = "BLOCKED"
        /\ log[k].current_nonce # None
        /\ log[k].nonce_after = log[k].current_nonce[1]
        /\ log[k + 1].current_nonce = log[k].current_nonce
        /\ log[k + 1].nonce_after = log[k].current_nonce[1]

\* the all-zero signature sent twice, refused when sent and then mined as
\* reverted
C15_Witness ==
    /\ pc = "returned"
    /\ Len(results) = 2
    /\ attacks[1] = ZeroSignatureVector
    /\ attacks[2] = ZeroSignatureVector
    /\ log[1].stage = "transact" /\ Rejected(1)
    /\ log[2].receipt = Some(0)
    /\ results[1].status = "BLOCKED"
    /\ results[2].status = "BLOCKED"
    /\ log[2].nonce_after = log[1].current_nonce[1]

\* C18: the nonce is not kept from one vector to the next: each vector is
\* encoded with the nonce the chain holds after the vector before it has
\* finished, plus its own nonce_offset.
C18_NonceReadFresh ==
    /\ pc = "submit" =>
         /\ current_nonce = Some(chainNonce)
         /\ op[1][2] = chainNonce + attacks[idx].nonce_offset
    /\ \A k \in Executed :
         (k > 1 /\ log[k].current_nonce # None) =>
           log[k].current_nonce[1] = log[k - 1].nonce_after

\* the first vector is accepted and uses the nonce, the second is encoded
\* from the new one
C18_Witness ==
    /\ pc = "submit"
    /\ idx = 2
    /\ log[1].receipt = Some(1)
    /\ current_nonce = Some(log[1].current_nonce[1] + 1)
    /\ attacks[2].nonce_offset = -1
    /\ op[1][2] = log[1].current_nonce[1]

\* C19 as stated: the operation handed to handleOps has the 9-field packed
\* layout, the gas limits in one 32-byte word (verification gas in the low
\* 128 bits, call gas in the high 128 bits) and the fees in another.
RECURSIVE NatBytes(_)
NatBytes(n) == IF n = 0 THEN <<>> ELSE NatBytes(n \div 256) \o <<n % 256>>
ExpectedCallGas(attack) ==
    (200000 * attack.call_gas_limit_factor[1]) \div attack.call_gas_limit_factor[2]
ExpectedVerificationGas(attack) ==
    (100000 * attack.verification_gas_limit_factor[1])
      \div attack.verification_gas_limit_factor[2]
Relevant(attack) ==
    AttackVector(attack.name, attack.description, attack.attack_type,
      IF attack.attack_type = "signature_forgery" THEN attack.signature ELSE None,
      IF attack.attack_type = "replay" THEN attack.nonce_offset ELSE 0,
      IF attack.attack_type = "gas_exhaustion"
        THEN attack.call_gas_limit_factor ELSE DefaultFactor,
      IF attack.attack_type = "gas_exhaustion"
        THEN attack.verification_gas_limit_factor ELSE DefaultFactor)
C20_IrrelevantOverridesIgnored ==
    /\ pc = "submit" => op[1] = UserOp(current_nonce[1], Relevant(attacks[idx]))
    /\ \A k \in Executed :
         (log[k].stage = "construct" /\ log[k].exc # None) =>
           log[k].exc[1] \in TransportErrors

\* C17: when the text the AI service answered does not parse as JSON,
\* generate_attack_userop returns an error dict whose raw_response is that
\* text exactly as received; nothing is raised and the text is not lost.
ContainsJson(text) == \E i \in 1..Len(text) : text[i] = JsonObject
C17_RawResponseKept ==
    (aiPc = "returned" /\ response_text # None) =>
      /\ returned # None
      /\ ~ContainsJson(response_text[1]) => returned[1].userop = None
      /\ returned[1].userop = None =>
           /\ returned[1].error = Some("Failed to parse JSON")
           /\ returned[1].raw_response = response_text

\* a fenced answer without JSON, with white space that the cleaning removes
C17_Witness ==
    /\ aiPc = "returned"
    /\ response_text = Some(<<Blank, Fence, LineFeed, Word>>)
    /\ returned[1].error = Some("Failed to parse JSON")
    /\ returned[1].cleaned_attempt = Some(<<Word>>)
    /\ returned[1].raw_response = Some(<<Blank, Fence, LineFeed, Word>>)

\* C16: ten vectors from the generator executed against an entry point whose
\* handleOps always reverts give ten BLOCKED results, none VULNERABLE and
\* none ERROR, whatever nonce the account starts with.
C16_AllBlocked ==
    (genPc = "returned" /\ Len(attacks) = E2ECount) =>
      /\ \A k \in Executed : results[k].status = "BLOCKED"
      /\ pc \in {"returned", "exit"} => Len(results) = E2ECount

Round(num, den) ==
    LET q == num \div den
        r == num % den
    IN IF 2 * r < den THEN q
       ELSE IF 2 * r > den THEN q + 1
       ELSE IF q % 2 = 0 THEN q ELSE q + 1
C22_GasRounded ==
    pc = "submit" =>
      /\ op[1][5] = Round(200000 * attacks[idx].call_gas_limit_factor[1],
                          attacks[idx].call_gas_limit_factor[2])
      /\ op[1][6] = Round(100000 * attacks[idx].verification_gas_limit_factor[1],
                          attacks[idx].verification_gas_limit_factor[2])

InFlight == {k \in 1..Len(calls) : calls[k].vector > Len(results)}
C24_Serialized ==
    /\ Cardinality(InFlight) <= 1
    /\ \A k \in 1..Len(calls) : calls[k].results_before = calls[k].vector - 1
    /\ \A k \in 1..Len(calls), m \in 1..Len(calls) :
         k < m => calls[k].vector < calls[m].vector

\* the first transaction was never mined, the wait ran out, and only then
\* was the second vector submitted
C24_Witness ==
    /\ pc = "wait"
    /\ idx = 2
    /\ Len(calls) = 2
    /\ log[1].exc = Some(TimeExhausted)
    /\ mined[1] = None
    /\ InFlight = {2}

\* C25: no vector is retried: within one execute_batch run a vector causes
\* at most one handleOps call, whatever its result.
CallsOf(i) == {k \in 1..Len(calls) : calls[k].vector = i}
C25_NoRetry ==
    /\ \A i \in 1..Len(attacks) : Cardinality(CallsOf(i)) <= 1
    /\ Len(calls) <= Len(attacks)

\* a vector that ended in ERROR after its call, and the run went on
C25_Witness ==
    /\ pc = "returned"
    /\ Len(results) = 2
    /\ results[1].status = "ERROR"
    /\ log[1].stage = "transact"
    /\ results[2].status = "VULNERABLE"
    /\ Cardinality(CallsOf(1)) = 1
    /\ Cardinality(CallsOf(2)) = 1

\* C28: every result has a status among VULNERABLE, BLOCKED and ERROR, the
\* name, type and description of its vector, a transaction hash exactly when
\* a receipt was obtained, and no error text exactly when it is VULNERABLE.
C28_ResultShape ==
    \A k \in Executed :
      /\ results[k].status \in {"VULNERABLE", "BLOCKED", "ERROR"}
      /\ results[k].name = attacks[k].name
      /\ results[k].type = attacks[k].attack_type
      /\ results[k].description = attacks[k].description
      /\ results[k].tx_hash # None <=> log[k].receipt # None
      /\ results[k].error = None <=> results[k].status = "VULNERABLE"

\* one result with a receipt and one without in the same batch
C28_Witness ==
    /\ Len(results) = 2
    /\ results[1].status = "BLOCKED"
    /\ results[1].tx_hash # None
    /\ results[2].status = "BLOCKED"
    /\ results[2].tx_hash = None
    /\ results[2].error # None

\* C26: the signature of every generated signature_forgery vector is 65
\* zero bytes, or 1 to 64 bytes long, or empty, or 65 bytes long with a last
\* byte other than 27 and 28; so none is longer than 65 bytes and none of
\* length 65 ends in 27 or 28.
ForgerySignatureShape(sig) ==
    /\ \/ sig = [k \in 1..65 |-> 0]
       \/ Len(sig) \in 1..64
       \/ sig = <<>>
       \/ Len(sig) = 65 /\ sig[65] \notin {27, 28}
    /\ Len(sig) <= 65
    /\ Len(sig) = 65 => sig[65] \notin {27, 28}
C26_ForgerySignatures ==
    \A i \in 1..Len(batch) :
      batch[i].attack_type = "signature_forgery" =>
        /\ batch[i].signature # None
        /\ ForgerySignatureShape(batch[i].signature[1])

\* the longest short signature, then an invalid recovery id, then the zeros
C26_Witness ==
    /\ genPc = "returned"
    /\ Len(batch) = 3
    /\ batch[1].name = "SigAttack_0_short"
    /\ Len(batch[1].signature[1]) = 64
    /\ batch[2].name = "SigAttack_1_invalid_v"
    /\ batch[2].signature[1][65] = 255
    /\ batch[3].name = "SigAttack_2_zero"

\* C27: in test_zero_signature a failure of the harness is not reported as a
\* pass: when the submission raises an exception that is no rejection by the
\* protocol, the verdict is not PASSED.
HarnessFailure(e) ==
    /\ ~IsContractLogicError(e)
    /\ ~In(<<"revert">>, lower(Str(e)))
C27_HarnessFailureNotPassed ==
    (testPc = "returned" /\ test = Some("zero_signature")
       /\ attempts[1].exc # None /\ HarnessFailure(attempts[1].exc[1])) =>
      verdict[1].status # "PASSED"

\* C29: test_replay_attack returns PASSED only if the on-chain nonce was the
\* same before the first attempt, after it and after the replay; a failed
\* lookup never makes a changed nonce look unchanged.
C29_PassedMeansNonceUnchanged ==
    (testPc = "returned" /\ test = Some("replay_attack")
       /\ verdict[1].status = "PASSED") =>
      /\ Len(looked_up) = 3
      /\ looked_up[2] = looked_up[1]
      /\ looked_up[3] = looked_up[1]

\* C30: test_short_signature returns MEDIUM VULNERABILITY exactly when one
\* of its five submissions got a receipt with status 1; a submission that
\* raised, whatever the text of the exception, does not cause that verdict.
C30_VulnerableIffAccepted ==
    (testPc = "returned" /\ test = Some("short_signature")) =>
      /\ Len(attempts) = 5
      /\ verdict[1].status = "MEDIUM VULNERABILITY"
           <=> \E k \in 1..Len(attempts) : attempts[k].receipt = Some(1)

====
